---- MODULE Spec2Model ----
(***************************************************************************)
(* The particle-logo animation of js/logoScene.js: the asynchronous init,  *)
(* the Cycle Generator (prepareBuildCycle), the per-frame handler (tick)   *)
(* with its four phases, and the resize handler.                           *)
(*                                                                         *)
(* Numbers.  JavaScript numbers are modelled in fixed point: a real x is   *)
(* the integer x * SCALE (thousandths).  Times are in milliseconds, angles *)
(* in milliradians, positions in thousandths of a world unit.  NaN is a    *)
(* value of its own (NaN below) and every operator that can meet it treats *)
(* it as IEEE-754 does: arithmetic yields NaN, every comparison is false.  *)
(*                                                                         *)
(* Time.  The code reads the clock only through differences                *)
(* (now - tPhaseStart, and the delta of THREE.Clock); the absolute reading *)
(* feeds nothing but spinner.rotation.x, which is not modelled.  The model *)
(* therefore measures the clock from the start of the current phase: the   *)
(* reading that a phase transition stores in tPhaseStart is instant 0 of a *)
(* new epoch, and now, tPhaseStart and the THREE.Clock's oldTime are all   *)
(* expressed in it (Epoch below).                                          *)
(***************************************************************************)
EXTENDS Integers, Sequences, FiniteSets

---------------------------------------------------------------------------
(* Fixed point *)

SCALE == 10 * 10 * 10
NaN == 0 - (SCALE * SCALE * SCALE)

Min(a, b) == IF a <= b THEN a ELSE b
Max(a, b) == IF a >= b THEN a ELSE b
Abs(a) == IF a < 0 THEN 0 - a ELSE a

IsNaN(v) == v = NaN

\* a * b and a / b of two fixed-point numbers, rounded toward zero
Mul(a, b) ==
  IF IsNaN(a) \/ IsNaN(b) THEN NaN
  ELSE IF (a < 0) = (b < 0) THEN (Abs(a) * Abs(b)) \div SCALE
  ELSE 0 - ((Abs(a) * Abs(b)) \div SCALE)

\* JavaScript's a / b: 0 / 0 is NaN (x / 0 for x # 0 is an infinity, which
\* no divisor of the program produces: see the uses)
Div(a, b) ==
  IF IsNaN(a) \/ IsNaN(b) \/ b = 0 THEN NaN
  ELSE IF (a < 0) = (b < 0) THEN (Abs(a) * SCALE) \div Abs(b)
  ELSE 0 - ((Abs(a) * SCALE) \div Abs(b))

Add(a, b) == IF IsNaN(a) \/ IsNaN(b) THEN NaN ELSE a + b
Sub(a, b) == IF IsNaN(a) \/ IsNaN(b) THEN NaN ELSE a - b

\* an average taken over one entry too many
DivIntOffByOne(a, n) == IF IsNaN(a) THEN NaN ELSE a \div (n + 1)

\* a / n for a count n: 0 / 0 is NaN
DivInt(a, n) ==
  IF IsNaN(a) \/ n = 0 THEN NaN
  ELSE IF a < 0 THEN 0 - (Abs(a) \div n) ELSE a \div n

\* comparisons: false as soon as one side is NaN
Gt(a, b) == ~IsNaN(a) /\ ~IsNaN(b) /\ a > b
Ge(a, b) == ~IsNaN(a) /\ ~IsNaN(b) /\ a >= b

\* the integer square root, by bisection on lo..hi
RECURSIVE ISqrtIn(_, _, _)
ISqrtIn(v, lo, hi) ==
  IF lo >= hi THEN lo
  ELSE LET mid == (lo + hi + 1) \div 2
       IN IF mid * mid <= v THEN ISqrtIn(v, mid, hi) ELSE ISqrtIn(v, lo, mid - 1)

ISqrt(v) == ISqrtIn(v, 0, 40 * SCALE)

---------------------------------------------------------------------------
(* SETTINGS *)

LOGO_DIAMETER == 6000
IMAGE_FIT == 810
BUILD_step == 3
BUILD_startJitter == 1200
BUILD_minDur == 2000
BUILD_maxDur == 4000
BUILD_planeFadeAt == 920
HANDOFF_startProg == 940
HANDOFF_endProg == 1000
SHAKE_secs == 8000
SHAKE_maxYawDeg == 25
SHAKE_speed == 500
EXIT_startJitter == 500
EXIT_minDur == 1000
EXIT_maxDur == 1800
EXIT_pushDistance == 6000
LOOP_rebuildDelay == 1000
PlaneFadeStep == 30
HideAt == 999
PadFactor == 750
SpawnDepth == 800
ExitSpread == 800
ExitDepth == 1200
JitterSpan == 600
PI == 3142

---------------------------------------------------------------------------
(* Helpers *)

\* 2^(-f) for a fraction f in [0, 1): the table of 2^(-j/10), interpolated
Pow2Tenths == <<1000, 933, 871, 812, 758, 707, 660, 616, 574, 536, 500>>

Pow2NegFrac(f) ==
  LET j == (f * 10) \div SCALE
      r == (f * 10) % SCALE
      a == Pow2Tenths[j + 1]
      b == Pow2Tenths[j + 2]
  IN a - (((a - b) * r) \div SCALE)

RECURSIVE Pow2Int(_)
Pow2Int(k) == IF k = 0 THEN 1 ELSE 2 * Pow2Int(k - 1)

\* Math.pow(2, -x) for x >= 0
Pow2Neg(x) == Pow2NegFrac(x % SCALE) \div Pow2Int(x \div SCALE)

\* easeOutExpo without its "1 -"
easeOutExpoNoComplement(t) == IF t >= SCALE THEN SCALE ELSE Pow2Neg(10 * t)

easeOutExpo(t) == IF t >= SCALE THEN SCALE ELSE SCALE - Pow2Neg(10 * t)

easeInCubic(t) == (t * t * t) \div (SCALE * SCALE)

\* clamp01 without its Math.min
clamp01NoCeiling(v) == IF IsNaN(v) THEN NaN ELSE Max(0, v)

\* Math.max(0, Math.min(1, v)): NaN goes through both
clamp01(v) == IF IsNaN(v) THEN NaN ELSE Max(0, Min(SCALE, v))

smoothstep(a, b, x) ==
  LET t == clamp01(Div(x - a, b - a))
  IN IF IsNaN(x) \/ IsNaN(t) THEN NaN
     ELSE (t * t * (3 * SCALE - 2 * t)) \div (SCALE * SCALE)

\* THREE.MathUtils.lerp(x, y, t) = (1 - t) * x + t * y
lerp(x, y, t) ==
  IF IsNaN(t) THEN NaN ELSE ((SCALE - t) * x + t * y) \div SCALE

\* Math.sin on milliradians: the argument is reduced to [0, 2 pi) and the
\* half wave is Bhaskara's rational approximation
SinHalf(x) ==
  LET q == x * (PI - x)
  IN (16 * q) \div ((5 * PI * PI - 4 * q) \div SCALE)

Sin(x) ==
  LET r == x % (2 * PI)
  IN IF r <= PI THEN SinHalf(r) ELSE 0 - SinHalf(r - PI)

\* Math.pow(x, 1.5) for x in [0, 1]
Pow15(x) == IF IsNaN(x) THEN NaN ELSE ISqrt((x * x * x) \div SCALE)

\* THREE.MathUtils.degToRad
degToRad(d) == (d * PI) \div 180

MAX_YAW == degToRad(SHAKE_maxYawDeg)

randBetween(a, b, r) == a + Mul(r, b - a)

---------------------------------------------------------------------------
(* Bounds of the model and the inputs drawn from them *)

\* the largest number of opaque sample pixels of the source image
MaxN == 2
\* the number of late frames (a skipped frame or a host stall) in a run
MaxStalls == 1
\* the clock of one epoch is followed up to MaxClock quanta
MaxClock == 200

\* a frame comes one Quantum after the previous one; a late frame comes
\* after two, or after a Stall that is longer than a whole cycle
Quantum == SCALE \div 2
Stall == 60 * Quantum
Deltas == {Quantum}
LateDeltas == {2 * Quantum, Stall}

\* the time prepareBuildCycle's own reading of the clock lags the tick's
FreshLag == {0, 1}

\* Math.random(): the j-th call (from 0) of one run of a routine reads a tape;
\* the routine's tape is any of these
Tapes == {"zeros", "highs", "mixed"}

Random(tape, j) ==
  CASE tape = "zeros" -> 0
    [] tape = "halves" -> SCALE \div 2
    [] tape = "highs" -> SCALE - 1
    [] OTHER -> (j * 177 + 600) % SCALE

\* the tapes the sampler's jitter is read from
SampleTapes == {"halves", "mixed"}

\* the source image after decoding: its size in pixels and the pixels whose
\* alpha exceeds BUILD.alphaCutoff
ImageSide == 2 * BUILD_step
PixelOrder == <<<<3, 3>>, <<0, 0>>, <<3, 0>>, <<0, 3>>>>
Images ==
  {[width |-> ImageSide, height |-> ImageSide,
    opaque |-> {PixelOrder[i] : i \in 1..n}] : n \in 0..MaxN}

\* MOUNT's client size, as the resize handler can find it
Viewports == {<<800, 600>>, <<600, 800>>}

\* MOUNT's client size when the module is evaluated; every later size comes
\* through the resize handler
InitialViewport == <<800, 600>>

---------------------------------------------------------------------------
(* State *)

VARIABLES
  pc,                \* init's position: "loadImage", "loadTexture", "running", "failed"
  now,               \* the latest reading of performance.now(), in ms
  clock,             \* THREE.Clock: [running, oldTime]
  viewport,          \* the size the renderer and the camera were last set to
  bounds, scale,     \* samples.bounds and the pixel-to-world factor
  N,                 \* the particle count
  endPositions,      \* target positions, one <<x, y, z>> per particle
  startPositions,    \* spawn positions
  exitPositions,     \* exit targets
  position,          \* the geometry's 'position' attribute (current positions)
  startTimesBuild, durationsBuild,
  startTimesExit, durationsExit,
  pointsVisible,     \* points.visible
  pointsOpacity,     \* points.material.opacity
  planeOpacity,      \* plane.material.opacity
  rotationY,         \* spinner.rotation.y
  shakePhase,
  phase, tPhaseStart,
  avgBuildProgress,
  s,                 \* tick's local s, as the last BUILD_SPIN tick computed it
  elapsed,           \* now - tPhaseStart, as the latest tick read it
  generated,         \* the runs of prepareBuildCycle in the latest step of init or tick
  rendered,          \* whether the latest step of init or tick ended in renderer.render
  stalls             \* the late frames so far

vars ==
  <<pc, now, clock, viewport, bounds, scale, N, endPositions, startPositions,
    exitPositions, position, startTimesBuild, durationsBuild, startTimesExit,
    durationsExit, pointsVisible, pointsOpacity, planeOpacity, rotationY,
    shakePhase, phase, tPhaseStart, avgBuildProgress, s, elapsed, generated,
    rendered, stalls>>

\* what init fixes once and nothing rewrites
sampleVars == <<bounds, scale, N, endPositions>>

\* what prepareBuildCycle draws for one cycle
cycleVars ==
  <<startPositions, exitPositions, startTimesBuild, durationsBuild,
    startTimesExit, durationsExit>>

BUILD_SPIN == 0
SHAKE == 1
EXIT == 2
WAIT == 3
PHASES == {BUILD_SPIN, SHAKE, EXIT, WAIT}

Particles == 1..N

---------------------------------------------------------------------------
(* sampleImageToPoints *)

\* the sampled pixels in the order of the two loops: rows, then columns
RECURSIVE ScanFrom(_, _, _)
ScanFrom(img, x, y) ==
  IF y >= img.height THEN <<>>
  ELSE IF x >= img.width THEN ScanFrom(img, 0, y + BUILD_step)
  ELSE (IF <<x, y>> \in img.opaque THEN <<<<x, y>>>> ELSE <<>>)
       \o ScanFrom(img, x + BUILD_step, y)

sampleImageToPoints(img, tape) ==
  LET px == ScanFrom(img, 0, 0)
  IN [targets |->
        [k \in 1..Len(px) |->
           [x |-> px[k][1] * SCALE + Mul(Random(tape, 2 * (k - 1)) - SCALE \div 2, JitterSpan),
            y |-> px[k][2] * SCALE + Mul(Random(tape, 2 * (k - 1) + 1) - SCALE \div 2, JitterSpan)]],
      bounds |-> [w |-> img.width * SCALE, h |-> img.height * SCALE,
                  cx |-> (img.width * SCALE) \div 2, cy |-> (img.height * SCALE) \div 2]]

centeredTargets(samples, sc) ==
  [k \in 1..Len(samples.targets) |->
     <<Mul(samples.targets[k].x - samples.bounds.cx, sc),
       Mul(samples.bounds.cy - samples.targets[k].y, sc),
       0>>]

---------------------------------------------------------------------------
(* prepareBuildCycle *)

\* the spawn rectangle without its padding
PADNone == Mul(LOGO_DIAMETER, 0)

PAD == Mul(LOGO_DIAMETER, PadFactor)
halfW(b, sc) == (Mul(b.w, sc) \div 2) + PAD
halfH(b, sc) == (Mul(b.h, sc) \div 2) + PAD

\* the spawn position of particle i: calls 5(i-1) .. 5(i-1)+2 of the tape
SpawnOf(tape, i, b, sc) ==
  LET c == 5 * (i - 1)
      edge == (Random(tape, c) * 4) \div SCALE
      sz == Mul(2 * Random(tape, c + 1) - SCALE, SpawnDepth)
      r == Random(tape, c + 2)
      hw == halfW(b, sc)
      hh == halfH(b, sc)
  IN CASE edge = 0 -> <<0 - hw, randBetween(0 - hh, hh, r), sz>>
       [] edge = 1 -> <<hw, randBetween(0 - hh, hh, r), sz>>
       [] edge = 2 -> <<randBetween(0 - hw, hw, r), hh, sz>>
       [] OTHER -> <<randBetween(0 - hw, hw, r), 0 - hh, sz>>

\* Math.hypot(vx, vy) || 1
ExitLen(vx, vy) ==
  LET h == ISqrt(vx * vx + vy * vy) IN IF h = 0 THEN SCALE ELSE h

\* the exit target of particle i: calls 5(i-1)+3 and 5(i-1)+4
ExitOf(tape, i, v) ==
  LET c == 5 * (i - 1)
      vx == v[1]
      vy == v[2]
      len == ExitLen(vx, vy)
      dx == Div(vx, len)
      dy == Div(vy, len)
      mag == EXIT_pushDistance + Mul(Random(tape, c + 3), Mul(LOGO_DIAMETER, ExitSpread))
  IN <<vx + Mul(dx, mag), vy + Mul(dy, mag),
       Mul(2 * Random(tape, c + 4) - SCALE, ExitDepth)>>

\* the second and third loops: calls 5N + 2(i-1) .. and 7N + 2(i-1) ..
BuildStartOf(tape, i, n) == Mul(Random(tape, 5 * n + 2 * (i - 1)), BUILD_startJitter)
\* a build duration drawn from [0, maxDur)
BuildDurFromZero(tape, i, n) == Mul(Random(tape, 5 * n + 2 * (i - 1) + 1), BUILD_maxDur)

BuildDurOf(tape, i, n) ==
  BUILD_minDur + Mul(Random(tape, 5 * n + 2 * (i - 1) + 1), BUILD_maxDur - BUILD_minDur)
ExitStartOf(tape, i, n) == Mul(Random(tape, 7 * n + 2 * (i - 1)), EXIT_startJitter)
ExitDurOf(tape, i, n) ==
  EXIT_minDur + Mul(Random(tape, 7 * n + 2 * (i - 1) + 1), EXIT_maxDur - EXIT_minDur)

\* a clock value x in the epoch that starts at origin
Epoch(x, origin) == x - origin

\* TimeIs with a tPhaseStart that no transition rewrites
TimeIsStale(t, start, clk, origin) ==
  /\ now' = Epoch(t, origin)
  /\ tPhaseStart' = Epoch(tPhaseStart, origin)
  /\ clock' = IF clk.running THEN [clk EXCEPT !.oldTime = Epoch(clk.oldTime, origin)] ELSE clk

\* the latest clock reading t, tPhaseStart = start and the THREE.Clock clk,
\* in the epoch that starts at origin
TimeIs(t, start, clk, origin) ==
  /\ now' = Epoch(t, origin)
  /\ tPhaseStart' = Epoch(start, origin)
  /\ clock' = IF clk.running THEN [clk EXCEPT !.oldTime = Epoch(clk.oldTime, origin)] ELSE clk

\* prepareBuildCycle without the reset of the plane's opacity
prepareBuildCycleKeepsPlane(tape, lag, clk, tnow) ==
  /\ startPositions' = [i \in 1..N |-> SpawnOf(tape, i, bounds, scale)]
  /\ exitPositions' = [i \in 1..N |-> ExitOf(tape, i, endPositions[i])]
  /\ position' = [i \in 1..N |-> SpawnOf(tape, i, bounds, scale)]
  /\ startTimesBuild' = [i \in 1..N |-> BuildStartOf(tape, i, N)]
  /\ durationsBuild' = [i \in 1..N |-> BuildDurOf(tape, i, N)]
  /\ startTimesExit' = [i \in 1..N |-> ExitStartOf(tape, i, N)]
  /\ durationsExit' = [i \in 1..N |-> ExitDurOf(tape, i, N)]
  /\ pointsVisible' = TRUE
  /\ pointsOpacity' = SCALE
  /\ planeOpacity' = planeOpacity
  /\ rotationY' = 0 - PI
  /\ shakePhase' = 0
  /\ phase' = BUILD_SPIN
  /\ TimeIs(tnow + lag, tnow + lag, clk, tnow + lag)
  /\ avgBuildProgress' = 0

\* prepareBuildCycle leaving the 'position' attribute as EXIT left it
prepareBuildCycleStalePosition(tape, lag, clk, tnow) ==
  /\ startPositions' = [i \in 1..N |-> SpawnOf(tape, i, bounds, scale)]
  /\ exitPositions' = [i \in 1..N |-> ExitOf(tape, i, endPositions[i])]
  /\ position' = position
  /\ startTimesBuild' = [i \in 1..N |-> BuildStartOf(tape, i, N)]
  /\ durationsBuild' = [i \in 1..N |-> BuildDurOf(tape, i, N)]
  /\ startTimesExit' = [i \in 1..N |-> ExitStartOf(tape, i, N)]
  /\ durationsExit' = [i \in 1..N |-> ExitDurOf(tape, i, N)]
  /\ pointsVisible' = TRUE
  /\ pointsOpacity' = SCALE
  /\ planeOpacity' = 0
  /\ rotationY' = 0 - PI
  /\ shakePhase' = 0
  /\ phase' = BUILD_SPIN
  /\ TimeIs(tnow + lag, tnow + lag, clk, tnow + lag)
  /\ avgBuildProgress' = 0

\* prepareBuildCycle, reading tape.  The caller's latest clock reading is
\* tnow and clk is its THREE.Clock; the routine's own reading of
\* performance.now() comes lag later
prepareBuildCycle(tape, lag, clk, tnow) ==
  /\ startPositions' = [i \in 1..N |-> SpawnOf(tape, i, bounds, scale)]
  /\ exitPositions' = [i \in 1..N |-> ExitOf(tape, i, endPositions[i])]
  /\ position' = [i \in 1..N |-> SpawnOf(tape, i, bounds, scale)]
  /\ startTimesBuild' = [i \in 1..N |-> BuildStartOf(tape, i, N)]
  /\ durationsBuild' = [i \in 1..N |-> BuildDurOf(tape, i, N)]
  /\ startTimesExit' = [i \in 1..N |-> ExitStartOf(tape, i, N)]
  /\ durationsExit' = [i \in 1..N |-> ExitDurOf(tape, i, N)]
  /\ pointsVisible' = TRUE
  /\ pointsOpacity' = SCALE
  /\ planeOpacity' = 0
  /\ rotationY' = 0 - PI
  /\ shakePhase' = 0
  /\ phase' = BUILD_SPIN
  /\ TimeIs(tnow + lag, tnow + lag, clk, tnow + lag)
  /\ avgBuildProgress' = 0

---------------------------------------------------------------------------
(* init *)

Init ==
  /\ pc = "loadImage"
  /\ now = 0
  /\ clock = [running |-> FALSE, oldTime |-> 0]
  /\ viewport = InitialViewport
  /\ bounds = [w |-> 0, h |-> 0, cx |-> 0, cy |-> 0]
  /\ scale = 0
  /\ N = 0
  /\ endPositions = <<>>
  /\ startPositions = <<>>
  /\ exitPositions = <<>>
  /\ position = <<>>
  /\ startTimesBuild = <<>>
  /\ durationsBuild = <<>>
  /\ startTimesExit = <<>>
  /\ durationsExit = <<>>
  /\ pointsVisible = TRUE
  /\ pointsOpacity = SCALE
  /\ planeOpacity = 0
  /\ rotationY = 0
  /\ shakePhase = 0
  /\ phase = BUILD_SPIN
  /\ tPhaseStart = 0
  /\ avgBuildProgress = 0
  /\ s = 0
  /\ elapsed = 0
  /\ generated = 0
  /\ rendered = FALSE
  /\ stalls = 0

tickVars ==
  <<position, pointsVisible, pointsOpacity, planeOpacity, rotationY,
    shakePhase, phase, tPhaseStart, avgBuildProgress>>

\* loadImage resolves: init samples the image and builds the targets and the
\* points, up to the await of the texture
ImageLoaded ==
  /\ pc = "loadImage"
  /\ \E img \in Images, tape \in SampleTapes :
       LET samples == sampleImageToPoints(img, tape)
           sc == Div(Mul(LOGO_DIAMETER, IMAGE_FIT), Max(samples.bounds.w, samples.bounds.h))
       IN /\ bounds' = samples.bounds
          /\ scale' = sc
          /\ N' = Len(samples.targets)
          /\ endPositions' = centeredTargets(samples, sc)
  /\ pc' = "loadTexture"
  /\ generated' = 0
  /\ rendered' = FALSE
  /\ UNCHANGED <<now, clock, viewport, cycleVars, tickVars, s, elapsed, stalls>>

\* loadImage rejects (img.onerror): the await throws and init ends
ImageFailed ==
  /\ pc = "loadImage"
  /\ pc' = "failed"
  /\ generated' = 0
  /\ rendered' = FALSE
  /\ UNCHANGED <<now, clock, viewport, sampleVars, cycleVars, tickVars, s, elapsed, stalls>>

\* the texture loads: init builds the plane, runs prepareBuildCycle and hands
\* tick to renderer.setAnimationLoop
TextureLoaded ==
  /\ pc = "loadTexture"
  /\ \E tape \in Tapes : prepareBuildCycle(tape, 0, clock, now)
  /\ pc' = "running"
  /\ generated' = 1
  /\ rendered' = FALSE
  /\ UNCHANGED <<viewport, sampleVars, s, elapsed, stalls>>

\* loadAsync rejects: the await throws and init ends
TextureFailed ==
  /\ pc = "loadTexture"
  /\ pc' = "failed"
  /\ generated' = 0
  /\ rendered' = FALSE
  /\ UNCHANGED <<now, clock, viewport, sampleVars, cycleVars, tickVars, s, elapsed, stalls>>

---------------------------------------------------------------------------
(* tick *)

\* clock.getDelta() at reading t: the first call starts the clock and
\* returns 0, a later one returns the time since the previous call
getDelta(clk, t) == IF clk.running THEN t - clk.oldTime ELSE 0

\* the THREE.Clock after getDelta() at reading t
Started(t) == [running |-> TRUE, oldTime |-> t]

RECURSIVE SumTo(_, _)
SumTo(f, n) == IF n = 0 THEN 0 ELSE f[n] + SumTo(f, n - 1)

\* build progress that starts with the phase, not at the particle's start
BuildProgIgnoresStart(i, el) == clamp01(Div(el, durationsBuild[i]))

\* build progress that starts over when the duration is used up
BuildProgWraps(i, el) ==
  clamp01(Div((el - startTimesBuild[i]) % durationsBuild[i], durationsBuild[i]))

\* exit progress that starts over when the duration is used up
ExitProgWraps(i, el) ==
  clamp01(Div((el - startTimesExit[i]) % durationsExit[i], durationsExit[i]))

\* per-particle progress of the two loops at elapsed time el
BuildProg(i, el) == clamp01(Div(el - startTimesBuild[i], durationsBuild[i]))
ExitProg(i, el) == clamp01(Div(el - startTimesExit[i], durationsExit[i]))

Lerp3(a, b, e) == <<lerp(a[1], b[1], e), lerp(a[2], b[2], e), lerp(a[3], b[3], e)>>

\* the blend factor of the hand-off
BlendOf(avg) == smoothstep(HANDOFF_startProg, HANDOFF_endProg, avg)

\* BuildDone without the test of the plane, and with a plane test that no
\* opacity passes
BuildDoneIgnoresPlane(sNew, op) == Ge(sNew, HideAt)
BuildDoneUnreachable(sNew, op) == Ge(sNew, HideAt) /\ Gt(op, SCALE)

\* the BUILD_SPIN -> SHAKE test of a tick that computed sNew and left the
\* plane at opacity op
BuildDone(sNew, op) == Ge(sNew, HideAt) /\ Ge(op, HideAt)

\* ShakeDone with > for >=
ShakeDoneStrict(el) == el > SHAKE_secs

\* the SHAKE -> EXIT test at elapsed time el
ShakeDone(el) == el >= SHAKE_secs

\* WaitDone with > for >=
WaitDoneStrict(el) == el > LOOP_rebuildDelay

\* the WAIT -> BUILD_SPIN test at elapsed time el
WaitDone(el) == el >= LOOP_rebuildDelay

\* the EXIT loop's counter
ExitDoneCount(el) == Cardinality({i \in Particles : ExitProg(i, el) >= SCALE})

\* ExitDone satisfied by the first particle that is done
ExitDoneAny(el) == ExitDoneCount(el) >= 1

\* the EXIT -> WAIT test
ExitDone(el) == ExitDoneCount(el) >= N

\* the plane's fade-in without its threshold
PlaneFadeInAlways(avg, op) == Min(SCALE, op + PlaneFadeStep)

\* the plane's opacity after one BUILD_SPIN tick that computed avg
PlaneFadeIn(avg, op) ==
  IF Gt(avg, BUILD_planeFadeAt) THEN Min(SCALE, op + PlaneFadeStep) ELSE op

\* the accumulator starting again from the amount of the tick
ShakeAdvanceRestarts(sNew, dt) == Mul(SHAKE_speed, dt) - shakePhase

\* the accumulator advancing from the first tick of the cycle
ShakeAdvanceAlways(sNew, dt) == Mul(SHAKE_speed, dt)

\* what a BUILD_SPIN tick adds to shakePhase
ShakeAdvance(sNew, dt) == Mul(SHAKE_speed, dt) * (IF Gt(sNew, 0) THEN 1 ELSE 0)

yawBuild(avg) == lerp(0 - PI, 0, avg)
yawShake(sp, sNew) == Mul(Mul(MAX_YAW, Sin(sp)), sNew)

\* a linear particle fade
fadeLinear(sNew) == Sub(SCALE, sNew)

fade(sNew) == Pow15(Sub(SCALE, sNew))

TickBuildSpin(t, dt) ==
  LET el == t - tPhaseStart
      e == [i \in Particles |-> easeOutExpo(BuildProg(i, el))]
      avg == DivInt(SumTo(e, N), N)
      op == PlaneFadeIn(avg, planeOpacity)
      sNew == BlendOf(avg)
      sp == shakePhase + ShakeAdvance(sNew, dt)
  IN /\ position' = [i \in Particles |-> Lerp3(startPositions[i], endPositions[i], e[i])]
     /\ avgBuildProgress' = avg
     /\ planeOpacity' = op
     /\ s' = sNew
     /\ shakePhase' = sp
     /\ rotationY' = Add(Mul(Sub(SCALE, sNew), yawBuild(avg)), yawShake(sp, sNew))
     /\ pointsOpacity' = fade(sNew)
     /\ pointsVisible' = IF Ge(sNew, HideAt) THEN FALSE ELSE pointsVisible
     /\ IF BuildDone(sNew, op)
        THEN phase' = SHAKE /\ TimeIs(t, t, Started(t), t)
        ELSE phase' = phase /\ TimeIs(t, tPhaseStart, Started(t), 0)
     /\ elapsed' = el
     /\ generated' = 0
     /\ rendered' = TRUE
     /\ UNCHANGED cycleVars

\* TickShake leaving SHAKE for WAIT
TickShakeSkipsExit(t, dt) ==
  LET el == t - tPhaseStart
      sp == shakePhase + Mul(SHAKE_speed, dt)
  IN /\ shakePhase' = sp
     /\ rotationY' = Mul(MAX_YAW, Sin(sp))
     /\ IF ShakeDone(el)
        THEN /\ pointsVisible' = TRUE
             /\ pointsOpacity' = SCALE
             /\ phase' = WAIT
             /\ TimeIs(t, t, Started(t), t)
        ELSE /\ UNCHANGED <<pointsVisible, pointsOpacity, phase>>
             /\ TimeIs(t, tPhaseStart, Started(t), 0)
     /\ elapsed' = el
     /\ generated' = 0
     /\ rendered' = TRUE
     /\ UNCHANGED <<cycleVars, position, planeOpacity, avgBuildProgress, s>>

\* a SHAKE tick that starts fading the plane out already
TickShakeFadesPlane(t, dt) ==
  LET el == t - tPhaseStart
      sp == shakePhase + Mul(SHAKE_speed, dt)
  IN /\ shakePhase' = sp
     /\ rotationY' = Mul(MAX_YAW, Sin(sp))
     /\ planeOpacity' = Max(0, planeOpacity - PlaneFadeStep)
     /\ IF ShakeDone(el)
        THEN /\ pointsVisible' = TRUE
             /\ pointsOpacity' = SCALE
             /\ phase' = EXIT
             /\ TimeIs(t, t, Started(t), t)
        ELSE /\ UNCHANGED <<pointsVisible, pointsOpacity, phase>>
             /\ TimeIs(t, tPhaseStart, Started(t), 0)
     /\ elapsed' = el
     /\ generated' = 0
     /\ rendered' = TRUE
     /\ UNCHANGED <<cycleVars, position, avgBuildProgress, s>>

TickShake(t, dt) ==
  LET el == t - tPhaseStart
      sp == shakePhase + Mul(SHAKE_speed, dt)
  IN /\ shakePhase' = sp
     /\ rotationY' = Mul(MAX_YAW, Sin(sp))
     /\ IF ShakeDone(el)
        THEN /\ pointsVisible' = TRUE
             /\ pointsOpacity' = SCALE
             /\ phase' = EXIT
             /\ TimeIs(t, t, Started(t), t)
        ELSE /\ UNCHANGED <<pointsVisible, pointsOpacity, phase>>
             /\ TimeIs(t, tPhaseStart, Started(t), 0)
     /\ elapsed' = el
     /\ generated' = 0
     /\ rendered' = TRUE
     /\ UNCHANGED <<cycleVars, position, planeOpacity, avgBuildProgress, s>>

\* TickExit going on to BUILD_SPIN in the same tick when the pause is over too
TickExitCatchesUp(t, dt) ==
  LET el == t - tPhaseStart
  IN /\ position' =
          [i \in Particles |->
             Lerp3(endPositions[i], exitPositions[i], easeInCubic(ExitProg(i, el)))]
     /\ planeOpacity' = Max(0, planeOpacity - PlaneFadeStep)
     /\ IF ExitDone(el)
        THEN phase' = (IF WaitDone(el) THEN BUILD_SPIN ELSE WAIT) /\ TimeIs(t, t, Started(t), t)
        ELSE phase' = phase /\ TimeIs(t, tPhaseStart, Started(t), 0)
     /\ elapsed' = el
     /\ generated' = 0
     /\ rendered' = TRUE
     /\ UNCHANGED <<cycleVars, pointsVisible, pointsOpacity, rotationY, shakePhase,
                    avgBuildProgress, s>>

\* TickExit interpolating in place, into the exit targets
TickExitWritesExitTargets(t, dt) ==
  LET el == t - tPhaseStart
  IN /\ exitPositions' =
          [i \in Particles |->
             Lerp3(endPositions[i], exitPositions[i], easeInCubic(ExitProg(i, el)))]
     /\ planeOpacity' = Max(0, planeOpacity - PlaneFadeStep)
     /\ IF ExitDone(el)
        THEN phase' = WAIT /\ TimeIs(t, t, Started(t), t)
        ELSE phase' = phase /\ TimeIs(t, tPhaseStart, Started(t), 0)
     /\ elapsed' = el
     /\ generated' = 0
     /\ rendered' = TRUE
     /\ UNCHANGED <<startPositions, startTimesBuild, durationsBuild, startTimesExit,
                    durationsExit, position, pointsVisible, pointsOpacity, rotationY,
                    shakePhase, avgBuildProgress, s>>

TickExit(t, dt) ==
  LET el == t - tPhaseStart
  IN /\ position' =
          [i \in Particles |->
             Lerp3(endPositions[i], exitPositions[i], easeInCubic(ExitProg(i, el)))]
     /\ planeOpacity' = Max(0, planeOpacity - PlaneFadeStep)
     /\ IF ExitDone(el)
        THEN phase' = WAIT /\ TimeIs(t, t, Started(t), t)
        ELSE phase' = phase /\ TimeIs(t, tPhaseStart, Started(t), 0)
     /\ elapsed' = el
     /\ generated' = 0
     /\ rendered' = TRUE
     /\ UNCHANGED <<cycleVars, pointsVisible, pointsOpacity, rotationY, shakePhase,
                    avgBuildProgress, s>>

TickWait(t, dt) ==
  LET el == t - tPhaseStart
  IN /\ elapsed' = el
     /\ IF WaitDone(el)
        THEN /\ \E tape \in Tapes, lag \in FreshLag :
                  prepareBuildCycle(tape, lag, Started(t), t)
             /\ generated' = 1
             /\ rendered' = FALSE
             /\ UNCHANGED s
        ELSE /\ TimeIs(t, tPhaseStart, Started(t), 0)
             /\ generated' = 0
             /\ rendered' = TRUE
             /\ UNCHANGED <<cycleVars, position, pointsVisible, pointsOpacity,
                            planeOpacity, rotationY, shakePhase, phase,
                            avgBuildProgress, s>>

\* the frames the host can deliver next: an ordinary one, or a late one
\* while the run's late frames are not used up
FrameDeltas == Deltas \cup (IF stalls < MaxStalls THEN LateDeltas ELSE {})

\* the loop started although init failed
LoopRunningAnyway == pc \in {"running", "failed"}

\* renderer.setAnimationLoop(tick) was reached: the host calls tick
LoopRunning == pc = "running"

\* one frame, d after the latest clock reading
Tick ==
  /\ LoopRunning
  /\ \E d \in FrameDeltas :
       /\ now + d <= MaxClock * Quantum
       /\ stalls' = IF d \in LateDeltas THEN stalls + 1 ELSE stalls
       /\ LET t == now + d
              dt == getDelta(clock, t)
          IN \/ phase = BUILD_SPIN /\ TickBuildSpin(t, dt)
             \/ phase = SHAKE /\ TickShake(t, dt)
             \/ phase = EXIT /\ TickExit(t, dt)
             \/ phase = WAIT /\ TickWait(t, dt)
  /\ UNCHANGED <<pc, viewport, sampleVars>>

\* a resize handler that starts the animation over
onResizeRestartsPhase ==
  /\ \E v \in Viewports : v # viewport /\ viewport' = v
  /\ phase' = BUILD_SPIN
  /\ UNCHANGED <<pc, now, clock, sampleVars, cycleVars, position, pointsVisible,
                 pointsOpacity, planeOpacity, rotationY, shakePhase, tPhaseStart,
                 avgBuildProgress, s, elapsed, generated, rendered, stalls>>

\* the window's resize listener
onResize ==
  /\ \E v \in Viewports : v # viewport /\ viewport' = v
  /\ UNCHANGED <<pc, now, clock, sampleVars, cycleVars, tickVars, s, elapsed,
                 generated, rendered, stalls>>

Next ==
  \/ ImageLoaded
  \/ ImageFailed
  \/ TextureLoaded
  \/ TextureFailed
  \/ Tick
  \/ onResize

Spec == Init /\ [][Next]_vars

\* ENABLED <<Tick>>_vars as a state predicate: the loop runs and the next
\* frame is within the model's clock bound
TickEnabled == LoopRunning /\ now + Quantum <= MaxClock * Quantum

\* the host keeps delivering frames: weak fairness of Tick, WF_vars(Tick),
\* with its ENABLED written out as TickEnabled
LiveSpec == Spec /\ ([]<>(~TickEnabled) \/ []<><<Tick>>_vars)

---------------------------------------------------------------------------
(* Properties *)

\* a step of tick: the only steps after init that read the clock (the
\* reading moves on, or a new phase starts the epoch again)
TickStep == pc = "running" /\ (now' # now \/ phase' # phase)

NextPhase(p) == (p + 1) % 4

Between(x, a, b) == Min(a, b) <= x /\ x <= Max(a, b)
Between3(v, a, b) == \A k \in 1..3 : Between(v[k], a[k], b[k])

\* C1: the phase starts as BUILD_SPIN (ASSEMBLE) and the only phase changes
\* of any step are BUILD_SPIN -> SHAKE, SHAKE -> EXIT, EXIT -> WAIT and
\* WAIT -> BUILD_SPIN
C1_PhaseOrder ==
  /\ phase = BUILD_SPIN
  /\ [][phase' # phase =>
          <<phase, phase'>> \in {<<BUILD_SPIN, SHAKE>>, <<SHAKE, EXIT>>,
                                 <<EXIT, WAIT>>, <<WAIT, BUILD_SPIN>>}]_vars

\* the cycle has come round: a tick in WAIT has just re-entered BUILD_SPIN
C1_Witness ==
  pc = "running" /\ phase = BUILD_SPIN /\ generated = 1 /\ clock.running

\* C2: with N >= 1 particles and frames that keep coming, every phase is
\* entered again and again: from any state of the running loop each of the
\* four phases is eventually the current one
C2_NoTerminalPhase ==
  \A p \in PHASES : [](pc = "running" /\ N >= 1 => <>(phase = p))

\* PAUSE has just been entered with particles: the three phases before
\* it were each left in turn
C2_Witness ==
  pc = "running" /\ N >= 1 /\ phase = WAIT /\ now = 0 /\ rendered

\* C3: a tick in BUILD_SPIN moves to SHAKE exactly when the s it computed
\* and the plane opacity it left are both >= 0.999; otherwise the phase stays
C3_BuildToShake ==
  [][TickStep /\ phase = BUILD_SPIN =>
       /\ phase' \in {BUILD_SPIN, SHAKE}
       /\ phase' = SHAKE <=>
            (~IsNaN(s') /\ s' >= HideAt /\ planeOpacity' >= HideAt)]_vars

\* a tick has just made the transition
C3_Witness ==
  /\ pc = "running" /\ phase = SHAKE /\ now = 0 /\ rendered
  /\ s >= HideAt /\ planeOpacity >= HideAt

\* C4: a tick in SHAKE moves to EXIT exactly when now - tPhaseStart >= 8 s,
\* and right after the transition the points are visible with opacity 1
C4_ShakeToExit ==
  [][TickStep /\ phase = SHAKE =>
       /\ phase' \in {SHAKE, EXIT}
       /\ phase' = EXIT <=> elapsed' >= SHAKE_secs
       /\ phase' = EXIT => pointsVisible' /\ pointsOpacity' = SCALE]_vars

\* the transition was made by the tick at exactly 8 s
C4_Witness ==
  /\ pc = "running" /\ phase = EXIT /\ now = 0 /\ rendered
  /\ elapsed = SHAKE_secs /\ pointsVisible /\ pointsOpacity = SCALE

\* C5: a tick in EXIT moves to WAIT exactly when every particle's exit
\* progress clamp01((now - tPhaseStart - exitStart_i) / exitDuration_i) is
\* >= 1 in that tick; with every exitStart 0 and exitDuration 1.0 the tick at
\* elapsed time 1.0 moves to WAIT
C5_ExitToWait ==
  [][TickStep /\ phase = EXIT =>
       /\ phase' \in {EXIT, WAIT}
       /\ phase' = WAIT <=>
            \A i \in Particles :
              clamp01(Div(elapsed' - startTimesExit[i], durationsExit[i])) >= SCALE
       /\ ( /\ \A i \in Particles :
                 startTimesExit[i] = 0 /\ durationsExit[i] = EXIT_minDur
            /\ elapsed' = EXIT_minDur ) => phase' = WAIT]_vars

\* scenario B: two particles, exitStart 0 and exitDuration 1.0, and the tick
\* at 1.0 s has moved to WAIT
C5_Witness ==
  /\ pc = "running" /\ phase = WAIT /\ now = 0 /\ rendered /\ N = 2
  /\ \A i \in Particles : startTimesExit[i] = 0 /\ durationsExit[i] = EXIT_minDur
  /\ elapsed = EXIT_minDur

\* C6: a tick in WAIT moves to BUILD_SPIN exactly when now - tPhaseStart >=
\* rebuildDelay, and once init is over prepareBuildCycle runs once in the
\* step that makes that transition and in no other step
C6_WaitToBuild ==
  [][pc = "running" =>
       /\ (TickStep /\ phase = WAIT) =>
            /\ phase' \in {WAIT, BUILD_SPIN}
            /\ phase' = BUILD_SPIN <=> elapsed' >= LOOP_rebuildDelay
       /\ TickStep => generated' = IF phase = WAIT /\ phase' = BUILD_SPIN THEN 1 ELSE 0
       /\ ~TickStep => generated' = generated]_vars

\* the tick at exactly 1.0 s of WAIT has regenerated the cycle
C6_Witness ==
  /\ pc = "running" /\ phase = BUILD_SPIN /\ generated = 1 /\ clock.running
  /\ elapsed = LOOP_rebuildDelay

\* C7: one tick makes at most one phase transition, however late it comes
C7_OneTransitionPerTick ==
  [][TickStep => phase' \in {phase, NextPhase(phase)}]_vars

\* a tick that came a whole Stall late entered EXIT and went no further
C7_Witness ==
  /\ pc = "running" /\ phase = EXIT /\ now = 0 /\ rendered
  /\ elapsed >= Stall

\* C8: in every tick, for any elapsed time >= 0, each particle's build and
\* exit progress is in [0, 1] and each coordinate of its new position lies
\* between its two endpoints; every array has one entry per particle
C8_ProgressClamped ==
  [][TickStep =>
       /\ elapsed' >= 0
       /\ Len(position') = N /\ Len(startPositions) = N /\ Len(endPositions) = N
       /\ Len(exitPositions) = N /\ Len(startTimesBuild) = N
       /\ Len(durationsBuild) = N /\ Len(startTimesExit) = N
       /\ Len(durationsExit) = N
       /\ phase = BUILD_SPIN =>
            \A i \in Particles :
              /\ BuildProg(i, elapsed') \in 0..SCALE
              /\ Between3(position'[i], startPositions[i], endPositions[i])
       /\ phase = EXIT =>
            \A i \in Particles :
              /\ ExitProg(i, elapsed') \in 0..SCALE
              /\ Between3(position'[i], endPositions[i], exitPositions[i])]_vars

\* a BUILD_SPIN tick that came a whole Stall late
C8_Witness ==
  /\ pc = "running" /\ phase = BUILD_SPIN /\ rendered /\ N >= 1
  /\ elapsed >= Stall
  /\ \A i \in Particles : position[i] = endPositions[i]

\* C9: once loadImage or the texture load has rejected, tick is never
\* scheduled: no frame is ever rendered, the clock is never started and the
\* phase never changes
C9_LoadFailureStopsInit ==
  /\ [](pc = "failed" =>
          ~rendered /\ ~clock.running /\ phase = BUILD_SPIN /\ elapsed = 0)
  /\ [][pc = "failed" => pc' = "failed" /\ phase' = phase]_vars

\* the texture load rejected after the image had been sampled
C9_Witness == pc = "failed" /\ N >= 1 /\ viewport = <<600, 800>>

\* C11: in every BUILD_SPIN tick the yaw is (1 - s) * sweepYaw + s *
\* oscillationYaw of the avgBuildProgress, s and accumulator it computed (NaN
\* when they are NaN); a tick with s = 0 leaves the accumulator alone, and the
\* accumulator is 0 when any tick up to the first one with s > 0 starts
C11_YawBlend ==
  [][TickStep /\ phase = BUILD_SPIN =>
       /\ rotationY' =
            Add(Mul(Sub(SCALE, s'), lerp(0 - PI, 0, avgBuildProgress')),
                Mul(s', Mul(MAX_YAW, Sin(shakePhase'))))
       /\ s' = 0 => shakePhase' = shakePhase
       /\ shakePhase # 0 => generated = 0 /\ Gt(s, 0)]_vars

\* the first tick with s > 0, inside the blend window, has advanced the
\* accumulator from 0 by speed * dt
C11_Witness ==
  /\ pc = "running" /\ phase = BUILD_SPIN /\ rendered
  /\ s > 0 /\ s < SCALE
  /\ shakePhase = Mul(SHAKE_speed, Quantum)

\* the per-frame angular delta implied by speed * dt, with the rounding of
\* the fixed-point yaw allowed for
YawTolerance == SCALE \div 200
YawStepBound(dt) == Mul(MAX_YAW, Mul(SHAKE_speed, dt)) + YawTolerance

\* the previous step of tick was a BUILD_SPIN tick of the running cycle
AfterBuildTick == pc = "running" /\ phase = BUILD_SPIN /\ rendered

\* SHAKE was entered by the previous tick
AfterLastBuildTick == pc = "running" /\ phase = SHAKE /\ now = 0

\* C12: between two consecutive BUILD_SPIN ticks of which one at least has
\* s > 0 (inside the blend window, or crossing into it), and between the last
\* BUILD_SPIN tick and the first SHAKE tick, the yaw changes by no more than
\* MAX_YAW * speed * dt
C12_HandoffContinuity ==
  [][TickStep =>
       /\ (AfterBuildTick /\ (Gt(s, 0) \/ Gt(s', 0))) =>
            Abs(rotationY' - rotationY) <= YawStepBound(elapsed' - elapsed)
       /\ AfterLastBuildTick =>
            Abs(rotationY' - rotationY) <= YawStepBound(elapsed')]_vars

\* every particle's build interval is over at elapsed time el
BuildAllDone(el) ==
  \A i \in Particles : el >= startTimesBuild[i] + durationsBuild[i]

\* avgBuildProgress as a BUILD_SPIN tick at elapsed time el computes it
AvgAt(el) == DivInt(SumTo([i \in Particles |-> easeOutExpo(BuildProg(i, el))], N), N)

\* the ticks the plane's ramp needs from opacity op to reach HideAt
TicksLeft(op) == Max(0, (HideAt - op + PlaneFadeStep - 1) \div PlaneFadeStep)
RampTicks == TicksLeft(0)

\* the phase a tick at elapsed time el leaves, from the state it starts in
PhaseAfter(el) ==
  CASE phase = BUILD_SPIN ->
         IF BuildDone(BlendOf(AvgAt(el)), PlaneFadeIn(AvgAt(el), planeOpacity))
         THEN SHAKE ELSE BUILD_SPIN
    [] phase = SHAKE -> IF ShakeDone(el) THEN EXIT ELSE SHAKE
    [] phase = EXIT -> IF ExitDone(el) THEN WAIT ELSE EXIT
    [] OTHER -> IF WaitDone(el) THEN BUILD_SPIN ELSE WAIT

\* C13: with N >= 1, a BUILD_SPIN tick at or after max_i(buildStart_i +
\* buildDuration_i) computes avgBuildProgress = 1 and s = 1; the plane's ramp
\* then has at most RampTicks = 34 ticks to go, every such tick takes one off
\* and the tick that takes the last one moves to SHAKE; and the phase a tick
\* leaves is a function of the state it starts in and the clock reading only
C13_BuildCompletes ==
  /\ RampTicks = 34
  /\ [][(TickStep /\ phase = BUILD_SPIN /\ N >= 1 /\ BuildAllDone(elapsed')) =>
          /\ avgBuildProgress' = SCALE /\ s' = SCALE
          /\ TicksLeft(planeOpacity) <= RampTicks
          /\ TicksLeft(planeOpacity') = Max(0, TicksLeft(planeOpacity) - 1)
          /\ phase' = SHAKE <=> TicksLeft(planeOpacity') = 0]_vars
  /\ [][TickStep => phase' = PhaseAfter(elapsed')]_vars

\* a frame that came a whole Stall late found every particle built while the
\* plane was still at 0: the ramp has taken its first step of 34
C13_Witness ==
  /\ pc = "running" /\ phase = BUILD_SPIN /\ rendered /\ N >= 1
  /\ avgBuildProgress = SCALE /\ s = SCALE
  /\ planeOpacity = PlaneFadeStep /\ TicksLeft(planeOpacity) = RampTicks - 1

\* C14: a BUILD_SPIN tick adds exactly PlaneFadeStep = 0.03 (capped at 1) to
\* the plane's opacity when the avgBuildProgress it computed is > 0.92,
\* whatever its dt, and leaves the opacity alone otherwise; the opacity never
\* decreases in BUILD_SPIN
C14_PlaneFadeIn ==
  [][TickStep /\ phase = BUILD_SPIN =>
       /\ Gt(avgBuildProgress', BUILD_planeFadeAt) =>
            planeOpacity' = Min(SCALE, planeOpacity + PlaneFadeStep)
       /\ ~Gt(avgBuildProgress', BUILD_planeFadeAt) => planeOpacity' = planeOpacity
       /\ planeOpacity' >= planeOpacity]_vars

\* two steps of the ramp, the first taken by a frame a whole Stall late and
\* the second by an ordinary frame: both added 0.03
C14_Witness ==
  /\ pc = "running" /\ phase = BUILD_SPIN /\ rendered
  /\ elapsed >= Stall /\ planeOpacity = 2 * PlaneFadeStep

\* C15: a BUILD_SPIN tick sets the particle opacity to (1 - s)^1.5 of the s
\* it computed: 1 at s = 0, 0 at s = 1, and no larger for a larger s (over
\* every s in thousandths, and from one tick of a cycle to the next); the
\* points are hidden after the tick exactly when its s >= 0.999 or they were
\* hidden before it
C15_ParticleFade ==
  /\ \A a \in 0..(SCALE - 1) : Pow15(SCALE - (a + 1)) <= Pow15(SCALE - a)
  /\ [][TickStep /\ phase = BUILD_SPIN =>
          /\ pointsOpacity' = Pow15(Sub(SCALE, s'))
          /\ s' = 0 => pointsOpacity' = SCALE
          /\ s' = SCALE => pointsOpacity' = 0
          /\ (AfterBuildTick /\ Ge(s', s)) => pointsOpacity' <= pointsOpacity
          /\ ~pointsVisible' <=> (Ge(s', HideAt) \/ ~pointsVisible)]_vars

\* a tick of the hand-off has hidden the points while the plane is still
\* fading in
C15_Witness ==
  /\ pc = "running" /\ phase = BUILD_SPIN /\ rendered /\ N >= 1
  /\ s >= HideAt /\ ~pointsVisible /\ pointsOpacity = 0
  /\ planeOpacity < HideAt

\* p is on the perimeter of the rectangle of half extents hw and hh
OnPerimeter(p, hw, hh) ==
  \/ Abs(p[1]) = hw /\ Abs(p[2]) <= hh
  \/ Abs(p[2]) = hh /\ Abs(p[1]) <= hw

\* p is strictly outside the silhouette's bounding rectangle
OutsideSilhouette(p) ==
  \/ Abs(p[1]) > Mul(bounds.w, scale) \div 2
  \/ Abs(p[2]) > Mul(bounds.h, scale) \div 2

\* C16: once the Cycle Generator has run, every spawn position is on the
\* perimeter of the rectangle of half extents halfW and halfH (the
\* silhouette's plus a positive padding), strictly outside the silhouette's
\* bounding rectangle, with |z| <= 0.8
C16_SpawnOnPerimeter ==
  pc = "running" =>
    /\ PAD > 0
    /\ Len(startPositions) = N
    /\ \A i \in Particles :
         /\ OnPerimeter(startPositions[i], halfW(bounds, scale), halfH(bounds, scale))
         /\ OutsideSilhouette(startPositions[i])
         /\ Abs(startPositions[i][3]) <= SpawnDepth

\* a run has put one particle on the top edge and one on the right edge
C16_Witness ==
  /\ pc = "running" /\ generated = 1 /\ N = 2
  /\ startPositions[1][2] = halfH(bounds, scale)
  /\ startPositions[2][1] = halfW(bounds, scale)

\* the distance of p's XY from the image centre, which is the origin of the
\* centred targets
Dist(p) == ISqrt(p[1] * p[1] + p[2] * p[2])

\* the rounding of the fixed-point exit vector
ExitTolerance == SCALE \div 50

\* x is v moved outward along the direction from the centre to v, by a
\* magnitude in [pushDistance, pushDistance + 0.8 * LOGO_DIAMETER)
PushedOutward(v, x) ==
  /\ v[1] * x[1] >= 0 /\ v[2] * x[2] >= 0
  /\ Abs(v[1] * x[2] - v[2] * x[1]) <= ExitTolerance * (Dist(v) + Dist(x))
  /\ Dist(x) - Dist(v) >= EXIT_pushDistance - ExitTolerance
  /\ Dist(x) - Dist(v) < EXIT_pushDistance + Mul(LOGO_DIAMETER, ExitSpread) + ExitTolerance

\* C17: once the Cycle Generator has run, every particle's exit target is
\* its target pushed outward from the image centre by a magnitude in
\* [pushDistance, pushDistance + 0.8 * LOGO_DIAMETER), a target at the centre
\* included
C17_ExitPushedOutward ==
  pc = "running" =>
    \A i \in Particles : PushedOutward(endPositions[i], exitPositions[i])

C19_CycleReset ==
  [][generated' = 1 =>
       /\ rotationY' = 0 - PI
       /\ shakePhase' = 0
       /\ avgBuildProgress' = 0
       /\ planeOpacity' = 0
       /\ pointsVisible' /\ pointsOpacity' = SCALE
       /\ phase' = BUILD_SPIN
       /\ tPhaseStart' = now']_vars

\* a WAIT tick has run the generator after a whole cycle: the blend factor
\* of the cycle before is still 1, the state is the initial one
C19_Witness ==
  /\ pc = "running" /\ generated = 1 /\ clock.running /\ N >= 1
  /\ s = SCALE /\ elapsed >= LOOP_rebuildDelay
  /\ phase = BUILD_SPIN /\ rotationY = 0 - PI /\ planeOpacity = 0

\* the cycle arrays are one complete run of the generator on some tape
FreshCycle(sp, xp, tb, db, tx, dx) ==
  \E tape \in Tapes :
    /\ sp = [i \in 1..N |-> SpawnOf(tape, i, bounds, scale)]
    /\ xp = [i \in 1..N |-> ExitOf(tape, i, endPositions[i])]
    /\ tb = [i \in 1..N |-> BuildStartOf(tape, i, N)]
    /\ db = [i \in 1..N |-> BuildDurOf(tape, i, N)]
    /\ tx = [i \in 1..N |-> ExitStartOf(tape, i, N)]
    /\ dx = [i \in 1..N |-> ExitDurOf(tape, i, N)]

\* C20: the WAIT tick that re-enters BUILD_SPIN runs the whole generator and
\* renders nothing: after it all N entries of the spawn, exit and timing
\* arrays are one fresh run, the position buffer equals the fresh spawn
\* positions and only the targets are kept; the first BUILD_SPIN tick of the
\* cycle starts from exactly that state
C20_GeneratorAtomic ==
  /\ [][(TickStep /\ phase = WAIT /\ phase' = BUILD_SPIN) =>
          /\ generated' = 1 /\ ~rendered'
          /\ FreshCycle(startPositions', exitPositions', startTimesBuild',
                        durationsBuild', startTimesExit', durationsExit')
          /\ position' = startPositions'
          /\ endPositions' = endPositions /\ N' = N]_vars
  /\ [][(TickStep /\ phase = BUILD_SPIN /\ generated = 1) =>
          /\ position = startPositions
          /\ FreshCycle(startPositions, exitPositions, startTimesBuild,
                        durationsBuild, startTimesExit, durationsExit)
          /\ position' =
               [i \in Particles |->
                  Lerp3(startPositions[i], endPositions[i],
                        easeOutExpo(BuildProg(i, elapsed')))]]_vars

\* the first BUILD_SPIN tick of a regenerated cycle of two particles has run
\* and rendered
C20_Witness ==
  /\ pc = "running" /\ phase = BUILD_SPIN /\ rendered /\ N = 2
  /\ s = 0 /\ elapsed \in 1..Quantum /\ stalls = 1
  /\ FreshCycle(startPositions, exitPositions, startTimesBuild,
                durationsBuild, startTimesExit, durationsExit)

\* C21: once init has sampled the image, no step changes N, the targets or
\* the bounds and scale they were built with, neither a tick of any phase nor
\* a run of the Cycle Generator; a tick that does not run the generator
\* leaves the spawn positions, the exit targets and the four timing arrays
\* alone, and the position buffer keeps its N entries
C21_IdentityFixed ==
  [][pc # "loadImage" =>
       /\ N' = N /\ endPositions' = endPositions
       /\ bounds' = bounds /\ scale' = scale
       /\ (TickStep /\ generated' = 0) =>
            /\ UNCHANGED <<startPositions, exitPositions>>
            /\ UNCHANGED <<startTimesBuild, durationsBuild, startTimesExit, durationsExit>>
            /\ Len(position') = N]_vars

\* an EXIT tick has moved two particles off their targets, towards exit
\* targets that are where the generator put them
C21_Witness ==
  /\ pc = "running" /\ phase = EXIT /\ rendered /\ now > 0 /\ N = 2
  /\ \A i \in Particles :
       position[i] # endPositions[i] /\ position[i] # exitPositions[i]

\* C22: a BUILD_SPIN tick leaves particle i exactly at its spawn position
\* when its elapsed time is <= buildStart_i and exactly at its target when it
\* is >= buildStart_i + buildDuration_i; with every buildStart 0 and every
\* buildDuration 2.0, the tick at elapsed time 2.0 leaves every particle at
\* its target
C22_BuildEndpoints ==
  [][TickStep /\ phase = BUILD_SPIN =>
       /\ \A i \in Particles :
            /\ elapsed' <= startTimesBuild[i] => position'[i] = startPositions[i]
            /\ elapsed' >= startTimesBuild[i] + durationsBuild[i] =>
                 position'[i] = endPositions[i]
       /\ ( /\ \A i \in Particles :
                 startTimesBuild[i] = 0 /\ durationsBuild[i] = BUILD_minDur
            /\ elapsed' = BUILD_minDur ) => position' = endPositions]_vars

\* scenario A with two particles: buildStart 0, buildDuration 2.0, and the
\* tick at 2.0 s has put both on their targets
C22_Witness ==
  /\ pc = "running" /\ phase = BUILD_SPIN /\ rendered /\ N = 2
  /\ \A i \in Particles : startTimesBuild[i] = 0 /\ durationsBuild[i] = BUILD_minDur
  /\ elapsed = BUILD_minDur /\ position = endPositions
  /\ position # startPositions

\* C23: a tick that changes the phase sets tPhaseStart to the latest clock
\* reading (its own now, or the generator's fresh one) and a step that keeps
\* the phase keeps tPhaseStart; the elapsed time a tick uses is its reading
\* minus the tPhaseStart of the phase it starts in, which is the elapsed time
\* at the previous reading plus one frame interval: it is >= 0 and counts from
\* the start of the current phase only
C23_PhaseStartPerPhase ==
  [][pc = "running" =>
       /\ (TickStep /\ phase' # phase) => tPhaseStart' = now'
       /\ (TickStep /\ phase' = phase) =>
            tPhaseStart' = tPhaseStart /\ elapsed' = now' - tPhaseStart'
       /\ ~TickStep => tPhaseStart' = tPhaseStart /\ now' = now
       /\ TickStep =>
            /\ elapsed' >= 0
            /\ elapsed' - (now - tPhaseStart) \in Deltas \cup LateDeltas]_vars

\* the first tick after EXIT was entered: 8 s of SHAKE are behind it and its
\* elapsed time is one frame interval
C23_Witness ==
  /\ pc = "running" /\ phase = EXIT /\ rendered /\ N >= 1
  /\ now = Quantum /\ tPhaseStart = 0 /\ elapsed = Quantum

\* the previous step of tick was an EXIT tick of the running phase
AfterExitTick == pc = "running" /\ phase = EXIT /\ now > 0

\* progress went from a to b between two ticks at different times: it did not
\* decrease, and it increased if both values are strictly inside (0, 1)
Progressed(a, b) ==
  /\ b >= a
  /\ (0 < a /\ a < SCALE /\ 0 < b /\ b < SCALE) => b > a

\* C24: from one BUILD_SPIN tick of a cycle to the next, every particle's
\* build progress does not decrease, and it increases when it is strictly
\* inside (0, 1) at both; the same for the exit progress from one EXIT tick to
\* the next
C24_ProgressMonotone ==
  [][TickStep =>
       /\ AfterBuildTick =>
            /\ elapsed' > elapsed
            /\ \A i \in Particles :
                 Progressed(BuildProg(i, elapsed), BuildProg(i, elapsed'))
       /\ AfterExitTick =>
            /\ elapsed' > elapsed
            /\ \A i \in Particles :
                 Progressed(ExitProg(i, elapsed), ExitProg(i, elapsed'))]_vars

\* the third EXIT tick finds a particle strictly inside (0, 1), as the second
\* did
C24_Witness ==
  /\ pc = "running" /\ phase = EXIT /\ rendered /\ N >= 1
  /\ elapsed = 3 * Quantum
  /\ \E i \in Particles :
       /\ ExitProg(i, elapsed - Quantum) > 0
       /\ ExitProg(i, elapsed) < SCALE
       /\ ExitProg(i, elapsed) > ExitProg(i, elapsed - Quantum)

\* C25: easeOutExpo and easeInCubic map 0 to 0 and 1 to 1 and, over every
\* input of [0, 1] in thousandths, return a value of [0, 1] that does not
\* decrease as the input grows; the ticks apply them to the clamped progress
\* to place every particle
C25_EaseFunctions ==
  /\ easeOutExpo(0) = 0 /\ easeOutExpo(SCALE) = SCALE
  /\ easeInCubic(0) = 0 /\ easeInCubic(SCALE) = SCALE
  /\ \A x \in 0..SCALE :
       easeOutExpo(x) \in 0..SCALE /\ easeInCubic(x) \in 0..SCALE
  /\ \A x \in 0..(SCALE - 1) :
       easeOutExpo(x) <= easeOutExpo(x + 1) /\ easeInCubic(x) <= easeInCubic(x + 1)
  /\ [][TickStep =>
          /\ phase = BUILD_SPIN =>
               position' =
                 [i \in Particles |->
                    Lerp3(startPositions[i], endPositions[i],
                          easeOutExpo(clamp01(Div(elapsed' - startTimesBuild[i],
                                                  durationsBuild[i]))))]
          /\ phase = EXIT =>
               position' =
                 [i \in Particles |->
                    Lerp3(endPositions[i], exitPositions[i],
                          easeInCubic(clamp01(Div(elapsed' - startTimesExit[i],
                                                  durationsExit[i]))))]]_vars

\* a BUILD_SPIN tick has applied easeOutExpo to a progress strictly inside
\* (0, 1) and the eased value is ahead of the linear one
C25_Witness ==
  /\ pc = "running" /\ phase = BUILD_SPIN /\ rendered /\ N >= 1
  /\ \E i \in Particles :
       /\ BuildProg(i, elapsed) \in 1..(SCALE - 1)
       /\ easeOutExpo(BuildProg(i, elapsed)) > BuildProg(i, elapsed)
       /\ position[i] # startPositions[i] /\ position[i] # endPositions[i]

\* a step of the resize handler: the only steps that change the viewport
ResizeStep == viewport' # viewport

\* C26: once init is over (the loop runs, or init failed) every step is one
\* call of tick or one call of the resize handler, never both, and tick runs
\* only if the loop was started; a resize at any point leaves the phase,
\* tPhaseStart, shakePhase, both opacities, the visibility and every particle
\* buffer as they were
C26_OnlyTickAndResize ==
  /\ [][(pc = "running" \/ pc = "failed") =>
          /\ TickStep # ResizeStep
          /\ (TickStep => LoopRunning)]_vars
  /\ [][ResizeStep =>
          /\ UNCHANGED <<phase, tPhaseStart, shakePhase, planeOpacity, pointsOpacity,
                         pointsVisible, rotationY, avgBuildProgress>>
          /\ UNCHANGED <<N, endPositions, startPositions, exitPositions, position>>
          /\ UNCHANGED <<startTimesBuild, durationsBuild, startTimesExit, durationsExit>>
          /\ UNCHANGED <<pc, now, clock>>]_vars

\* the window was resized while the logo was oscillating
C26_Witness ==
  /\ pc = "running" /\ phase = SHAKE /\ now > 0 /\ rendered
  /\ viewport # InitialViewport

\* C28: in every SHAKE state the particles are hidden and the plane's opacity
\* is >= 0.999; a tick that stays in SHAKE advances shakePhase, sets the yaw
\* to MAX_YAW * sin(shakePhase) and leaves the particle positions, both
\* opacities, the visibility, avgBuildProgress, tPhaseStart and the particle
\* buffers unchanged
C28_ShakeFrame ==
  /\ [](pc = "running" /\ phase = SHAKE =>
          ~pointsVisible /\ planeOpacity >= HideAt)
  /\ [][TickStep /\ phase = SHAKE /\ phase' = SHAKE =>
          /\ UNCHANGED <<position, pointsVisible, pointsOpacity, planeOpacity,
                         avgBuildProgress, tPhaseStart>>
          /\ UNCHANGED <<N, endPositions, startPositions, exitPositions>>
          /\ UNCHANGED <<startTimesBuild, durationsBuild, startTimesExit, durationsExit>>
          /\ shakePhase' > shakePhase
          /\ rotationY' = Mul(MAX_YAW, Sin(shakePhase'))]_vars

\* a frame rendered in the middle of SHAKE: particles hidden, plane opaque,
\* the accumulator has advanced
C28_Witness ==
  /\ pc = "running" /\ phase = SHAKE /\ rendered /\ elapsed > 0 /\ now > 0
  /\ ~pointsVisible /\ planeOpacity >= HideAt /\ shakePhase > 0

\* C29: in every BUILD_SPIN state in which the particles have been hidden
\* the plane's opacity is already >= 0.999, whatever the spacing of the
\* ticks: no rendered frame shows neither the particles nor the opaque plane
C29_HiddenOnlyWhenPlaneOpaque ==
  pc = "running" /\ phase = BUILD_SPIN /\ ~pointsVisible =>
    planeOpacity >= HideAt

\* C30: the plane's opacity is 0 in every WAIT state: it has reached 0 by the
\* tick that moves EXIT to WAIT, whatever the spacing of the ticks
C30_PlaneGoneInWait ==
  pc = "running" /\ phase = WAIT => planeOpacity = 0

\* a number of [0, 1]; NaN is not one
InUnit(x) == ~IsNaN(x) /\ 0 <= x /\ x <= SCALE

\* C27: in every reachable state the plane's opacity and the particles'
\* opacity are both in [0, 1], whatever N is, and avgBuildProgress is in
\* [0, 1] when N >= 1
C27_OpacitiesInUnit ==
  /\ InUnit(planeOpacity)
  /\ InUnit(pointsOpacity)
  /\ N >= 1 => InUnit(avgBuildProgress)

\* C31: from one BUILD_SPIN tick of a cycle to the next (the clock only moves
\* forward) avgBuildProgress and the blend factor s do not decrease; hidden
\* particles stay hidden in BUILD_SPIN, and the only step that makes hidden
\* particles visible again is the tick that moves SHAKE to EXIT
C31_BuildMonotone ==
  /\ [][TickStep /\ AfterBuildTick =>
          /\ elapsed' > elapsed
          /\ ~Gt(avgBuildProgress, avgBuildProgress')
          /\ ~Gt(s, s')
          /\ N >= 1 => avgBuildProgress' >= avgBuildProgress /\ s' >= s
          /\ ~pointsVisible => ~pointsVisible' /\ Ge(s', HideAt)]_vars
  /\ [][(pc = "running" /\ ~pointsVisible /\ pointsVisible') =>
          TickStep /\ phase = SHAKE /\ phase' = EXIT]_vars

\* several ticks after the particles were hidden BUILD_SPIN is still going
\* on, with the build complete and the plane part of the way up its ramp
C31_Witness ==
  /\ pc = "running" /\ phase = BUILD_SPIN /\ rendered /\ N >= 1
  /\ ~pointsVisible /\ s = SCALE /\ avgBuildProgress = SCALE
  /\ planeOpacity > 3 * PlaneFadeStep /\ planeOpacity < HideAt

\* the dt that clock.getDelta() returned to the tick this step is
TickDt == getDelta(clock, elapsed' + tPhaseStart)

\* C32: shakePhase is written by tick only: a BUILD_SPIN tick adds
\* speed * dt when the s it computed is > 0 and nothing otherwise, the tick
\* that moves BUILD_SPIN to SHAKE included (no reset there); a SHAKE tick
\* adds speed * dt; EXIT ticks and WAIT ticks that do not regenerate leave
\* it unchanged; so it never decreases until prepareBuildCycle sets it to 0
C32_ShakePhaseAccumulates ==
  [][pc = "running" =>
       /\ ~TickStep => shakePhase' = shakePhase
       /\ (TickStep /\ generated' = 0) =>
            /\ shakePhase' >= shakePhase
            /\ phase = BUILD_SPIN =>
                 shakePhase' = shakePhase +
                   (IF Gt(s', 0) THEN Mul(SHAKE_speed, TickDt) ELSE 0)
            /\ phase = SHAKE => shakePhase' = shakePhase + Mul(SHAKE_speed, TickDt)
            /\ phase \in {EXIT, WAIT} => shakePhase' = shakePhase
            /\ (phase = BUILD_SPIN /\ phase' = SHAKE /\ shakePhase > 0) => shakePhase' > 0
       /\ (TickStep /\ generated' = 1) => phase = WAIT /\ shakePhase' = 0]_vars

\* SHAKE was entered with the accumulator the hand-off had built up, and
\* SHAKE ticks have added to it since
C32_Witness ==
  /\ pc = "running" /\ phase = SHAKE /\ rendered /\ now >= 2 * Quantum
  /\ shakePhase > Mul(SHAKE_speed, now)

\* C10: with zero sampled points the animation loop is not started and tick
\* never runs
C10_EmptySampleNotStarted ==
  N = 0 => pc # "running" /\ ~rendered /\ ~clock.running

====
